---- MODULE Spec2Model ----
(***************************************************************************)
(* A model of usmlproject.py: the text normaliser (preprocess_text), the   *)
(* seeded train/test split, and the notebook's workflow (TF-IDF fit, NMF   *)
(* reduction, the two classifiers, the K sweep and the training-fraction   *)
(* sweep).                                                                 *)
(*                                                                         *)
(* Documents are row numbers 0..n-1 of the DataFrame.  A feature matrix is *)
(* the sequence of the documents its rows belong to; a pandas Series is a  *)
(* sequence of [idx, val] records (index label, value).  A random stream   *)
(* is a linear congruential generator; the legacy numpy shuffle is the     *)
(* Fisher-Yates loop that draws from it.                                   *)
(***************************************************************************)
EXTENDS Integers, Sequences, FiniteSets, TLC

VARIABLES tx, sp, globalRng, run, prev, pc, category, vectorizer, X_tfidf,
          X_train, X_test, y_train, y_test, estimators, refs, mats,
          results_nmf, sup_results, subsets, evals, it

vars == <<tx, sp, globalRng, run, prev, pc, category, vectorizer, X_tfidf,
          X_train, X_test, y_train, y_test, estimators, refs, mats,
          results_nmf, sup_results, subsets, evals, it>>

wfvars == <<run, prev, pc, category, vectorizer, X_tfidf,
            X_train, X_test, y_train, y_test, estimators, refs, mats,
            results_nmf, sup_results, subsets, evals, it>>

(***************************************************************************)
(* Bounds                                                                  *)
(***************************************************************************)
MaxLen == 4

MaxEntropy == 3

MaxSamples == 7

NumDocs == 29

(***************************************************************************)
(* Text normaliser                                                         *)
(***************************************************************************)
\* One character of every class the normaliser distinguishes: an upper-case
\* letter, lower-case letters, a digit, the underscore, a punctuation mark and
\* two whitespace characters.
Alphabet == {"I", "i", "t", "x", "7", "_", "'", " ", "\n"}

Texts == UNION {[1..n -> Alphabet] : n \in 0..MaxLen}

\* str.lower()
Lower(c) == IF c = "I" THEN "i" ELSE c

\* the regular expression class \w: letters, digits and the underscore
IsWordChar(c) == c \in {"I", "i", "t", "x", "7", "_"}

\* the regular expression class \s, which is also what str.split() splits on
IsSpace(c) == c \in {" ", "\n"}

IsAlnum(c) == c \in {"I", "i", "t", "x", "7"}

\* entries of NLTK's English stopword list that the alphabet can spell
stop_words_set == {<<"i">>, <<"t">>, <<"i", "t">>, <<"i", "t", "s">>,
                   <<"i", "t", "'", "s">>}

LowerText(s) == [i \in 1..Len(s) |-> Lower(s[i])]

\* re.sub(r'[^\w\s]', '', text)
KeepWordAndSpace(c) == IsWordChar(c) \/ IsSpace(c)

ReSubPunct(s) == SelectSeq(s, KeepWordAndSpace)

\* str.split(): the maximal runs of non-whitespace characters, in order
RECURSIVE SplitFrom(_, _, _)
SplitFrom(s, i, cur) ==
  IF i > Len(s)
    THEN IF cur = <<>> THEN <<>> ELSE <<cur>>
    ELSE IF IsSpace(s[i])
           THEN IF cur = <<>>
                  THEN SplitFrom(s, i + 1, <<>>)
                  ELSE <<cur>> \o SplitFrom(s, i + 1, <<>>)
           ELSE SplitFrom(s, i + 1, Append(cur, s[i]))

Split(s) == SplitFrom(s, 1, <<>>)

NotStopword(w) == w \notin stop_words_set

\* " ".join(words)
RECURSIVE Join(_)
Join(ws) ==
  IF ws = <<>> THEN <<>>
  ELSE IF Len(ws) = 1 THEN ws[1]
  ELSE ws[1] \o <<" ">> \o Join(Tail(ws))

\* the stopword filter applied before the punctuation is removed
preprocess_text_filter_first(text) ==
  Join(Split(ReSubPunct(Join(SelectSeq(Split(LowerText(text)), NotStopword)))))

preprocess_text(text) ==
  Join(SelectSeq(Split(ReSubPunct(LowerText(text))), NotStopword))

TxIdle == [pc |-> "idle", text |-> <<>>, out |-> <<>>, out2 |-> <<>>]

TxInit == tx \in {[pc |-> "raw", text |-> t, out |-> <<>>, out2 |-> <<>>] : t \in Texts}

\* df['text'].apply(preprocess_text), one document
Preprocess ==
  /\ tx.pc = "raw"
  /\ tx' = [tx EXCEPT !.pc = "clean", !.out = preprocess_text(tx.text)]
  /\ UNCHANGED <<sp, globalRng, wfvars>>

\* the normaliser applied to a text it has produced
PreprocessAgain ==
  /\ tx.pc = "clean"
  /\ tx' = [tx EXCEPT !.pc = "clean2", !.out2 = preprocess_text(tx.out)]
  /\ UNCHANGED <<sp, globalRng, wfvars>>

(***************************************************************************)
(* Random streams                                                          *)
(***************************************************************************)
\* one step of the generator
LcgNext(s) == (75 * s + 74) % 65537

\* numpy.random.RandomState(seed): a stream of its own, started from the seed
RandomState(seed) == seed % 65537

\* the states the process-wide numpy stream can start in (it is seeded from
\* the operating system when numpy is imported)
Entropy == 0..MaxEntropy

\* check_random_state(None): the process-wide stream
check_random_state_global(seed) == globalRng

\* sklearn's check_random_state(seed) for an integer seed
check_random_state(seed) == RandomState(seed)

Swap(a, i, j) == [a EXCEPT ![i] = a[j], ![j] = a[i]]

\* the shuffle loop: for i = n-1 down to 1, swap a[i] with a[j], j drawn from
\* 0..i (positions are 0-based, the sequence is 1-based)
RECURSIVE Shuffle(_, _, _)
Shuffle(a, i, s) ==
  IF i < 1 THEN [perm |-> a, state |-> s]
  ELSE LET s1 == LcgNext(s)
           j  == s1 % (i + 1)
       IN Shuffle(Swap(a, i + 1, j + 1), i - 1, s1)

\* rng.permutation(n)
Permutation(s, n) == Shuffle([i \in 1..n |-> i - 1], n - 1, s)

Range(f) == {f[i] : i \in DOMAIN f}

(***************************************************************************)
(* Splitter                                                                *)
(***************************************************************************)
\* ceil(test_size * n_samples), test_size given in tenths
NTest(n, tenths) == (tenths * n + 9) \div 10

\* the training part starts one position early
SplitIndicesOverlap(perm, nTest) ==
  [test  |-> SubSeq(perm, 1, nTest),
   train |-> SubSeq(perm, nTest, Len(perm))]

\* ShuffleSplit: the first n_test entries of the permutation are the test
\* rows, the remaining ones the training rows
SplitIndices(perm, nTest) ==
  [test  |-> SubSeq(perm, 1, nTest),
   train |-> SubSeq(perm, nTest + 1, Len(perm))]

\* train_test_split(..., test_size=tenths/10, random_state=seed) on n samples;
\* it raises ValueError when the training part would be empty
train_test_split(n, tenths, seed) ==
  IF n - NTest(n, tenths) = 0
    THEN [ok |-> FALSE, train |-> <<>>, test |-> <<>>]
    ELSE LET p == Permutation(check_random_state(seed), n).perm
             r == SplitIndices(p, NTest(n, tenths))
         IN [ok |-> TRUE, train |-> r.train, test |-> r.test]

Seeds == {0, 7, 42}

SpIdle == [pc |-> "idle", n |-> 0, f |-> 0, seed |-> 0,
           first |-> [ok |-> FALSE, train |-> <<>>, test |-> <<>>],
           second |-> [ok |-> FALSE, train |-> <<>>, test |-> <<>>]]

SpInit ==
  sp \in {[SpIdle EXCEPT !.pc = "start", !.n = n, !.f = f, !.seed = s] :
            n \in 1..MaxSamples, f \in 1..9, s \in Seeds}

\* one call of the splitter, the first one or the one after a restart
SplitCall ==
  /\ sp.pc \in {"start", "restarted"}
  /\ sp' = IF sp.pc = "start"
             THEN [sp EXCEPT !.pc = "split",
                             !.first = train_test_split(sp.n, sp.f, sp.seed)]
             ELSE [sp EXCEPT !.pc = "rerun",
                             !.second = train_test_split(sp.n, sp.f, sp.seed)]
  /\ UNCHANGED <<tx, globalRng, wfvars>>

\* a new process, whose process-wide stream starts anywhere
SplitRestart ==
  /\ sp.pc = "split"
  /\ globalRng' \in Entropy
  /\ sp' = [sp EXCEPT !.pc = "restarted"]
  /\ UNCHANGED <<tx, wfvars>>

(***************************************************************************)
(* Library objects of the workflow                                         *)
(***************************************************************************)
NumLabels == 2

\* the integer seed written at every random_state= argument
SEED == 42

\* test_size=0.3, in tenths
TEST_TENTHS == 3

\* the n_components values of the K sweep
N_COMPONENTS == <<20, 50, 100>>

\* train_sizes, in tenths
train_sizes == <<1, 2, 5, 10>>

NoMatrix == [rows |-> <<>>, space |-> -1]

\* X[positions]: the rows at the given 0-based positions, in that order
TakeRows(M, pos) == [M EXCEPT !.rows = [i \in 1..Len(pos) |-> M.rows[pos[i] + 1]]]

\* series[labels]: selection by index label instead of by position
loc(y, pos) ==
  [i \in 1..Len(pos) |->
     IF \E j \in 1..Len(y) : y[j].idx = pos[i]
       THEN y[CHOOSE j \in 1..Len(y) : y[j].idx = pos[i]]
       ELSE [idx |-> pos[i], val |-> -1]]

\* series.iloc[positions]: selection by 0-based position
iloc(y, pos) == [i \in 1..Len(pos) |-> y[pos[i] + 1]]

Values(y) == [i \in 1..Len(y) |-> y[i].val]

Count(seq, v) == Cardinality({i \in 1..Len(seq) : seq[i] = v})

\* NMF(n_components=k, ...) and LogisticRegression(...): a new, unfitted object
NewNMF(k) == [kind |-> "NMF", k |-> k, log |-> <<>>, model |-> -1]

NewLR == [kind |-> "LR", k |-> 0, log |-> <<>>, model |-> -1]

\* estimator.fit: the learned state replaces whatever was learned before
Fit(e, M, model) ==
  [e EXCEPT !.log = Append(@, [op |-> "fit", rows |-> M.rows]), !.model = model]

\* a transform that learns the factorisation again from its argument
NMF_transform_refit(e, M) ==
  [e EXCEPT !.log = @ \o <<[op |-> "fit", rows |-> M.rows],
                           [op |-> "transform", rows |-> M.rows]>>]

\* nmf.transform(X): projects X with the learned factorisation
NMF_transform(e, M) ==
  [e EXCEPT !.log = Append(@, [op |-> "transform", rows |-> M.rows])]

\* nmf.fit_transform(X): fit on X, then the projection of X
NMF_fit_transform(e, M) == NMF_transform(Fit(e, M, e.k), M)

\* the labels a classifier can be fitted on: at least two classes
Fittable(y) == Cardinality(Range(Values(y))) >= 2

\* the solver, abstracted to the most frequent training label (the smallest
\* one on a tie); it is a function of the training labels alone
Majority(y) ==
  LET v == Values(y)
  IN CHOOSE l \in Range(v) :
       \A m \in Range(v) : Count(v, l) > Count(v, m) \/ (Count(v, l) = Count(v, m) /\ l <= m)

LR_fit(e, M, y) == Fit(e, M, Majority(y))

\* clf.predict(X): one label per row
predict(e, M) == [i \in 1..Len(M.rows) |-> e.model]

\* accuracy_score(y_true, y_pred), as the pair correct/total
accuracy_score(y, p) ==
  [correct |-> Cardinality({i \in 1..Len(y) : i <= Len(p) /\ y[i].val = p[i]}),
   total   |-> Len(y)]

\* the arguments given in the order (predicted, true)
confusion_matrix_swapped(y, p) ==
  LET L == Range(Values(y)) \cup Range(p)
  IN [t \in L |-> [q \in L |->
        Cardinality({i \in 1..Len(y) : i <= Len(p) /\ p[i] = t /\ y[i].val = q})]]

\* confusion_matrix(y_true, y_pred): rows are true labels, columns predictions
confusion_matrix(y, p) ==
  LET L == Range(Values(y)) \cup Range(p)
  IN [t \in L |-> [q \in L |->
        Cardinality({i \in 1..Len(y) : i <= Len(p) /\ y[i].val = t /\ p[i] = q})]]

NoCM == <<>>

\* one use of the evaluator: the labels and predictions it was given, the
\* rows the predictions were made for, and what it returned
Evaluation(site, y, M, p, withCM) ==
  [site |-> site, yTrue |-> y, predRows |-> M.rows, yPred |-> p,
   acc |-> accuracy_score(y, p),
   cm |-> IF withCM THEN confusion_matrix(y, p) ELSE NoCM]

\* d[k] = v on a dict, which keeps its keys in insertion order
DictSet(d, k, v) ==
  IF \E i \in 1..Len(d) : d[i][1] = k
    THEN [i \in 1..Len(d) |-> IF d[i][1] = k THEN <<k, v>> ELSE d[i]]
    ELSE Append(d, <<k, v>>)

Keys(d) == [i \in 1..Len(d) |-> d[i][1]]

\* int(frac * n), frac in tenths
SubsetSize(tenths, n) == (tenths * n) \div 10

\* np.random.choice(range(n), size, replace=False) on a stream in state s:
\* the first size entries of a permutation of range(n)
random_choice(s, n, size) ==
  LET r == Permutation(s, n)
  IN [idx |-> SubSeq(r.perm, 1, size), state |-> r.state]

\* the targets as load_files lists them: one folder per category, in order
DiskTarget(i, n) == (i * NumLabels) \div n

\* load_files(..., shuffle=True, random_state=42): the documents in the order
\* of a permutation drawn from a stream of its own
load_files(n, seed) ==
  LET p == Permutation(RandomState(seed), n).perm
  IN [i \in 1..n |-> DiskTarget(p[i], n)]

(***************************************************************************)
(* Workflow                                                                *)
(***************************************************************************)
NoRefs == [nmf_model |-> 0, clf_unsup |-> 0, nmf |-> 0, clf |-> 0, clf_sup |-> 0]

NoMats == [W_train |-> NoMatrix, W_test |-> NoMatrix, W_tr |-> NoMatrix,
           W_te |-> NoMatrix, X_subset |-> NoMatrix]

NoPrev == [pc |-> "none", category |-> <<>>, train |-> <<>>, test |-> <<>>,
           results_nmf |-> <<>>, sup_results |-> <<>>, subsets |-> <<>>]

\* the state of a process that has just started
Fresh ==
  /\ pc = "load"
  /\ category = <<>>
  /\ vectorizer = [fitted |-> FALSE, fitOn |-> {}]
  /\ X_tfidf = NoMatrix
  /\ X_train = NoMatrix
  /\ X_test = NoMatrix
  /\ y_train = <<>>
  /\ y_test = <<>>
  /\ estimators = <<>>
  /\ refs = NoRefs
  /\ mats = NoMats
  /\ results_nmf = <<>>
  /\ sup_results = <<>>
  /\ subsets = <<>>
  /\ evals = <<>>
  /\ it = 0

WfInit ==
  /\ run = 1
  /\ prev = NoPrev
  /\ globalRng \in Entropy
  /\ Fresh

WfIdle ==
  /\ run = 0
  /\ prev = NoPrev
  /\ Fresh

\* the classifier object of the previous iteration is used again
ConstructLR_reuse(ests) ==
  IF refs.clf # 0
    THEN [ests |-> ests, id |-> refs.clf]
    ELSE [ests |-> Append(ests, NewLR), id |-> Len(ests) + 1]

\* LogisticRegression(max_iter=1000, random_state=42)
ConstructLR(ests) == [ests |-> Append(ests, NewLR), id |-> Len(ests) + 1]

\* NMF(n_components=k, random_state=42, init='nndsvd', max_iter=500)
ConstructNMF(ests, k) == [ests |-> Append(ests, NewNMF(k)), id |-> Len(ests) + 1]

\* the Series df['category'] restricted to the given rows
CategoryOf(rows) == [i \in 1..Len(rows) |-> [idx |-> rows[i], val |-> category[rows[i] + 1]]]

\* lines 33-52: the corpus is read and put into the DataFrame
LoadCorpus ==
  /\ pc = "load"
  /\ category' = load_files(NumDocs, SEED)
  /\ pc' = "vectorize"
  /\ UNCHANGED <<tx, sp, globalRng, run, prev, vectorizer, X_tfidf, X_train,
                 X_test, y_train, y_test, estimators, refs, mats, results_nmf,
                 sup_results, subsets, evals, it>>

\* lines 204-208: every document is normalised, and the vectorizer is fitted
\* on, and transforms, the whole column
Vectorize ==
  /\ pc = "vectorize"
  /\ vectorizer' = [fitted |-> TRUE, fitOn |-> {i - 1 : i \in 1..Len(category)}]
  /\ X_tfidf' = [rows |-> [i \in 1..Len(category) |-> i - 1], space |-> 0]
  /\ pc' = "split"
  /\ UNCHANGED <<tx, sp, globalRng, run, prev, category, X_train, X_test,
                 y_train, y_test, estimators, refs, mats, results_nmf,
                 sup_results, subsets, evals, it>>

\* line 218
SplitData ==
  /\ pc = "split"
  /\ LET r == train_test_split(Len(X_tfidf.rows), TEST_TENTHS, SEED)
     IN IF r.ok
          THEN /\ X_train' = TakeRows(X_tfidf, r.train)
               /\ X_test' = TakeRows(X_tfidf, r.test)
               /\ y_train' = CategoryOf(r.train)
               /\ y_test' = CategoryOf(r.test)
               /\ pc' = "nmf"
          ELSE /\ pc' = "error"
               /\ UNCHANGED <<X_train, X_test, y_train, y_test>>
  /\ UNCHANGED <<tx, sp, globalRng, run, prev, category, vectorizer, X_tfidf,
                 estimators, refs, mats, results_nmf, sup_results, subsets,
                 evals, it>>

\* lines 232-235: the main reducer
FitNMF ==
  /\ pc = "nmf"
  /\ LET c  == ConstructNMF(estimators, 50)
         e1 == NMF_fit_transform(c.ests[c.id], X_train)
         e2 == NMF_transform(e1, X_test)
     IN /\ estimators' = [c.ests EXCEPT ![c.id] = e2]
        /\ refs' = [refs EXCEPT !.nmf_model = c.id]
        /\ mats' = [mats EXCEPT !.W_train = [rows |-> X_train.rows, space |-> c.id],
                                !.W_test = [rows |-> X_test.rows, space |-> c.id]]
  /\ pc' = "unsup"
  /\ UNCHANGED <<tx, sp, globalRng, run, prev, category, vectorizer, X_tfidf,
                 X_train, X_test, y_train, y_test, results_nmf, sup_results,
                 subsets, evals, it>>

\* lines 238-247: the classifier on the latent features and its evaluation
TrainUnsup ==
  /\ pc = "unsup"
  /\ IF Fittable(y_train)
       THEN LET c == ConstructLR(estimators)
                e == LR_fit(c.ests[c.id], mats.W_train, y_train)
                pred_unsup_train == predict(e, mats.W_train)
                pred_unsup_test == predict(e, mats.W_test)
            IN /\ estimators' = [c.ests EXCEPT ![c.id] = e]
               /\ refs' = [refs EXCEPT !.clf_unsup = c.id]
               /\ evals' = evals \o
                    <<Evaluation("unsup_train", y_train, mats.W_train, pred_unsup_train, FALSE),
                      Evaluation("unsup_test", y_test, mats.W_test, pred_unsup_test, TRUE)>>
               /\ pc' = "sweep_nmf"
       ELSE /\ pc' = "error"
            /\ UNCHANGED <<estimators, refs, evals>>
  /\ it' = 0
  /\ UNCHANGED <<tx, sp, globalRng, run, prev, category, vectorizer, X_tfidf,
                 X_train, X_test, y_train, y_test, mats, results_nmf,
                 sup_results, subsets>>

\* lines 255-263: one iteration of the K sweep
SweepNMF ==
  /\ pc = "sweep_nmf"
  /\ it < Len(N_COMPONENTS)
  /\ LET n   == N_COMPONENTS[it + 1]
         cn  == ConstructNMF(estimators, n)
         e1  == NMF_fit_transform(cn.ests[cn.id], X_train)
         e2  == NMF_transform(e1, X_test)
         es1 == [cn.ests EXCEPT ![cn.id] = e2]
         W_tr == [rows |-> X_train.rows, space |-> cn.id]
         W_te == [rows |-> X_test.rows, space |-> cn.id]
         cc  == ConstructLR(es1)
         e   == LR_fit(cc.ests[cc.id], W_tr, y_train)
         ev  == Evaluation("nmf_sweep", y_test, W_te, predict(e, W_te), FALSE)
     IN IF Fittable(y_train)
          THEN /\ estimators' = [cc.ests EXCEPT ![cc.id] = e]
               /\ refs' = [refs EXCEPT !.nmf = cn.id, !.clf = cc.id]
               /\ mats' = [mats EXCEPT !.W_tr = W_tr, !.W_te = W_te]
               /\ evals' = Append(evals, ev)
               /\ results_nmf' = DictSet(results_nmf, n, ev.acc)
               /\ it' = it + 1
               /\ pc' = IF it + 1 = Len(N_COMPONENTS) THEN "sup" ELSE "sweep_nmf"
          ELSE /\ pc' = "error"
               /\ UNCHANGED <<estimators, refs, mats, evals, results_nmf, it>>
  /\ UNCHANGED <<tx, sp, globalRng, run, prev, category, vectorizer, X_tfidf,
                 X_train, X_test, y_train, y_test, sup_results, subsets>>

\* lines 282-291: the classifier on the TF-IDF features and its evaluation
TrainSup ==
  /\ pc = "sup"
  /\ IF Fittable(y_train)
       THEN LET c == ConstructLR(estimators)
                e == LR_fit(c.ests[c.id], X_train, y_train)
                pred_sup_train == predict(e, X_train)
                pred_sup_test == predict(e, X_test)
            IN /\ estimators' = [c.ests EXCEPT ![c.id] = e]
               /\ refs' = [refs EXCEPT !.clf_sup = c.id]
               /\ evals' = evals \o
                    <<Evaluation("sup_train", y_train, X_train, pred_sup_train, FALSE),
                      Evaluation("sup_test", y_test, X_test, pred_sup_test, TRUE)>>
               /\ pc' = "sweep_frac"
       ELSE /\ pc' = "error"
            /\ UNCHANGED <<estimators, refs, evals>>
  /\ it' = 0
  /\ UNCHANGED <<tx, sp, globalRng, run, prev, category, vectorizer, X_tfidf,
                 X_train, X_test, y_train, y_test, mats, results_nmf,
                 sup_results, subsets>>

\* lines 300-310: one iteration of the training-fraction sweep; the subset is
\* drawn from the process-wide stream
SweepFrac ==
  /\ pc = "sweep_frac"
  /\ it < Len(train_sizes)
  /\ LET frac == train_sizes[it + 1]
         n    == Len(X_train.rows)
         ch   == random_choice(globalRng, n, SubsetSize(frac, n))
         subset_idx == ch.idx
         X_subset == TakeRows(X_train, subset_idx)
         y_subset == iloc(y_train, subset_idx)
         c    == ConstructLR(estimators)
         e    == LR_fit(c.ests[c.id], X_subset, y_subset)
         evTrain == Evaluation("frac_train", y_subset, X_subset, predict(e, X_subset), FALSE)
         evTest  == Evaluation("frac_test", y_test, X_test, predict(e, X_test), FALSE)
     IN /\ globalRng' = ch.state
        /\ subsets' = Append(subsets, [frac |-> frac, idx |-> subset_idx,
                                       X |-> X_subset, y |-> y_subset])
        /\ mats' = [mats EXCEPT !.X_subset = X_subset]
        /\ IF Fittable(y_subset)
             THEN /\ estimators' = [c.ests EXCEPT ![c.id] = e]
                  /\ refs' = [refs EXCEPT !.clf = c.id]
                  /\ evals' = evals \o <<evTrain, evTest>>
                  /\ sup_results' = DictSet(sup_results, frac, <<evTrain.acc, evTest.acc>>)
                  /\ it' = it + 1
                  /\ pc' = IF it + 1 = Len(train_sizes) THEN "done" ELSE "sweep_frac"
             ELSE /\ estimators' = c.ests
                  /\ refs' = [refs EXCEPT !.clf = c.id]
                  /\ pc' = "error"
                  /\ UNCHANGED <<evals, sup_results, it>>
  /\ UNCHANGED <<tx, sp, run, prev, category, vectorizer, X_tfidf,
                 X_train, X_test, y_train, y_test, results_nmf>>

\* the notebook is run again in a new process with the same configuration
Restart ==
  /\ run = 1
  /\ pc \in {"done", "error"}
  /\ run' = 2
  /\ prev' = [pc |-> pc, category |-> category, train |-> X_train.rows,
              test |-> X_test.rows, results_nmf |-> results_nmf,
              sup_results |-> sup_results, subsets |-> subsets]
  /\ globalRng' \in Entropy
  /\ pc' = "load"
  /\ category' = <<>>
  /\ vectorizer' = [fitted |-> FALSE, fitOn |-> {}]
  /\ X_tfidf' = NoMatrix
  /\ X_train' = NoMatrix
  /\ X_test' = NoMatrix
  /\ y_train' = <<>>
  /\ y_test' = <<>>
  /\ estimators' = <<>>
  /\ refs' = NoRefs
  /\ mats' = NoMats
  /\ results_nmf' = <<>>
  /\ sup_results' = <<>>
  /\ subsets' = <<>>
  /\ evals' = <<>>
  /\ it' = 0
  /\ UNCHANGED <<tx, sp>>

(***************************************************************************)
(* Specifications                                                          *)
(***************************************************************************)
Init == WfInit /\ tx = TxIdle /\ sp = SpIdle

Next ==
  \/ LoadCorpus
  \/ Vectorize
  \/ SplitData
  \/ FitNMF
  \/ TrainUnsup
  \/ SweepNMF
  \/ TrainSup
  \/ SweepFrac
  \/ Restart

Spec == Init /\ [][Next]_vars

InitText == TxInit /\ sp = SpIdle /\ globalRng = 0 /\ WfIdle

NextText == Preprocess \/ PreprocessAgain

SpecText == InitText /\ [][NextText]_vars

InitSplit == SpInit /\ tx = TxIdle /\ globalRng \in Entropy /\ WfIdle

NextSplit == SplitCall \/ SplitRestart

SpecSplit == InitSplit /\ [][NextSplit]_vars

(***************************************************************************)
(* Properties                                                              *)
(***************************************************************************)
RECURSIVE SumOver(_, _)
SumOver(f, S) ==
  IF S = {} THEN 0
  ELSE LET x == CHOOSE x \in S : TRUE IN f[x] + SumOver(f, S \ {x})

FitEvents(e) == {j \in 1..Len(e.log) : e.log[j].op = "fit"}

Reducers == {i \in 1..Len(estimators) : estimators[i].kind = "NMF"}

IsPrefix(a, b) == Len(a) <= Len(b) /\ a = SubSeq(b, 1, Len(a))

ReducerFitOnTrainOnly ==
  \A i \in Reducers :
    LET log == estimators[i].log
    IN /\ Cardinality(FitEvents(estimators[i])) = 1
       /\ \A j \in 1..Len(log) :
            /\ log[j].op = "fit" =>
                 /\ log[j].rows = X_train.rows
                 /\ Range(log[j].rows) \cap Range(X_test.rows) = {}
            /\ (log[j].op = "transform" /\ log[j].rows = X_test.rows) =>
                 /\ \E k \in 1..(j - 1) : log[k].op = "fit"
                 /\ \A k \in j..Len(log) : log[k].op # "fit"

ReducerFitOnTrainOnlyWitness ==
  /\ pc = "sup"
  /\ Cardinality(Reducers) = 1 + Len(N_COMPONENTS)
  /\ \A i \in Reducers :
       \E j \in 1..Len(estimators[i].log) :
          /\ estimators[i].log[j].op = "transform"
          /\ estimators[i].log[j].rows = X_test.rows
          /\ X_test.rows # <<>>

\* C3: the training and the test rows of a split are disjoint, together they
\* are all the rows, and the same call in a new process gives the same split.
SplitPartitionReproducible ==
  /\ (sp.pc \in {"split", "restarted", "rerun"} /\ sp.first.ok) =>
        /\ Range(sp.first.train) \cap Range(sp.first.test) = {}
        /\ Range(sp.first.train) \cup Range(sp.first.test) = 0..(sp.n - 1)
        /\ Len(sp.first.train) + Len(sp.first.test) = sp.n
  /\ sp.pc = "rerun" => sp.second = sp.first

SplitPartitionReproducibleWitness ==
  /\ sp.pc = "rerun"
  /\ sp.first.ok
  /\ sp.f = TEST_TENTHS
  /\ sp.seed = SEED
  /\ Len(sp.first.test) >= 2
  /\ Len(sp.first.train) >= 2
  /\ globalRng # 0

\* C4: a second run of the workflow with the same configuration gives the
\* same split, the same subsets and the same results as the first one.
RunsReproduce ==
  (run = 2 /\ pc \in {"done", "error"}) =>
     /\ pc = prev.pc
     /\ category = prev.category
     /\ X_train.rows = prev.train
     /\ X_test.rows = prev.test
     /\ results_nmf = prev.results_nmf
     /\ subsets = prev.subsets
     /\ sup_results = prev.sup_results

\* the normaliser as the five steps describe it: only letters, digits and
\* whitespace survive the second step
KeepAlnumAndSpace(c) == IsAlnum(c) \/ IsSpace(c)

FiveSteps(text) ==
  Join(SelectSeq(Split(SelectSeq(LowerText(text), KeepAlnumAndSpace)), NotStopword))

\* C5: the result of the normaliser is the text lower-cased, stripped of every
\* character that is neither alphanumeric nor whitespace, split on whitespace,
\* without its stopwords, joined by single spaces; it holds only alphanumeric
\* characters and single spaces, and none of its tokens is a stopword.
NormalizerFollowsSteps ==
  tx.pc \in {"clean", "clean2"} =>
     /\ tx.out = FiveSteps(tx.text)
     /\ \A i \in 1..Len(tx.out) : IsAlnum(tx.out[i]) \/ tx.out[i] = " "
     /\ \A i \in 1..(Len(tx.out) - 1) : ~(tx.out[i] = " " /\ tx.out[i + 1] = " ")
     /\ \A w \in Range(Split(tx.out)) : w \notin stop_words_set

\* punctuation: the characters that are neither letters, digits nor whitespace
IsPunctuation(c) == ~IsAlnum(c) /\ ~IsSpace(c)

\* C6: an empty text, or one of punctuation and whitespace only, is normalised
\* to the empty string.
PunctuationOnlyYieldsEmpty ==
  (/\ tx.pc \in {"clean", "clean2"}
   /\ \A i \in 1..Len(tx.text) : IsPunctuation(tx.text[i]) \/ IsSpace(tx.text[i]))
     => tx.out = <<>>

\* C7: every estimator is fitted at most once and from its unfitted state (a
\* new one is constructed in every iteration); the results of each sweep hold
\* one entry per value tried so far, in the order of the values, each coming
\* from one fit and evaluation; a finished sweep holds every value.
SweepsFreshAndOrdered ==
  /\ \A i \in 1..Len(estimators) :
       /\ Cardinality(FitEvents(estimators[i])) <= 1
       /\ estimators[i].log # <<>> => estimators[i].log[1].op = "fit"
  /\ IsPrefix(Keys(results_nmf), N_COMPONENTS)
  /\ IsPrefix(Keys(sup_results), train_sizes)
  /\ Cardinality({i \in 1..Len(evals) : evals[i].site = "nmf_sweep"}) = Len(results_nmf)
  /\ Cardinality({i \in 1..Len(evals) : evals[i].site = "frac_test"}) = Len(sup_results)
  /\ Cardinality({i \in 1..Len(evals) : evals[i].site = "frac_train"}) = Len(sup_results)
  /\ pc \in {"sup", "sweep_frac", "done"} => Keys(results_nmf) = N_COMPONENTS
  /\ pc = "sweep_nmf" => Len(results_nmf) = it
  /\ pc = "sweep_frac" => Len(sup_results) = it
  /\ pc = "done" =>
       /\ Keys(sup_results) = train_sizes
       /\ Len(estimators) = 3 + 2 * Len(N_COMPONENTS) + Len(train_sizes)
       /\ \A i \in 1..Len(estimators) : Cardinality(FitEvents(estimators[i])) = 1

SweepsFreshAndOrderedWitness ==
  /\ pc = "done"
  /\ Len(results_nmf) = 3
  /\ Len(sup_results) = 4

\* C8: the evaluator is always given as many predictions as labels, made for
\* the documents the labels belong to; the accuracy is the number of agreeing
\* positions over the number of samples and lies between 0 and 1; every row
\* of the confusion matrix sums to the number of samples with that true label.
EvaluatorSound ==
  \A k \in 1..Len(evals) :
    LET e == evals[k]
        v == Values(e.yTrue)
    IN /\ Len(e.yPred) = Len(e.yTrue)
       /\ e.predRows = [i \in 1..Len(e.yTrue) |-> e.yTrue[i].idx]
       /\ \A i \in 1..Len(v) : v[i] = category[e.yTrue[i].idx + 1]
       /\ e.acc.total = Len(v)
       /\ e.acc.total > 0
       /\ e.acc.correct = Cardinality({i \in 1..Len(v) : v[i] = e.yPred[i]})
       /\ 0 <= e.acc.correct
       /\ e.acc.correct <= e.acc.total
       /\ e.cm # NoCM =>
            /\ Range(v) \subseteq DOMAIN e.cm
            /\ \A t \in DOMAIN e.cm : SumOver(e.cm[t], DOMAIN e.cm[t]) = Count(v, t)

EvaluatorSoundWitness ==
  /\ pc = "done"
  /\ \E k \in 1..Len(evals) :
       /\ evals[k].cm # NoCM
       /\ evals[k].acc.correct > 0
       /\ evals[k].acc.correct < evals[k].acc.total
  /\ \E k \in 1..Len(evals) : evals[k].site = "frac_train"

\* C9: the subset of an iteration of the fraction sweep has floor(frac * N)
\* pairwise distinct positions of the training rows, so none of its documents
\* is a test document; its rows and its labels are those of the same
\* documents, in the same order; for frac = 1.0 it is the whole training set.
SubsetWellFormed ==
  \A k \in 1..Len(subsets) :
    LET s == subsets[k]
        n == Len(X_train.rows)
    IN /\ Len(s.idx) = (s.frac * n) \div 10
       /\ \A i, j \in 1..Len(s.idx) : i # j => s.idx[i] # s.idx[j]
       /\ Range(s.idx) \subseteq 0..(n - 1)
       /\ Len(s.X.rows) = Len(s.idx)
       /\ Len(s.y) = Len(s.idx)
       /\ Range(s.X.rows) \subseteq Range(X_train.rows)
       /\ Range(s.X.rows) \cap Range(X_test.rows) = {}
       /\ \A i \in 1..Len(s.idx) :
            /\ s.X.rows[i] = X_train.rows[s.idx[i] + 1]
            /\ s.y[i].idx = s.X.rows[i]
            /\ s.y[i].val = category[s.X.rows[i] + 1]
       /\ s.frac = 10 => Range(s.X.rows) = Range(X_train.rows)

SubsetWellFormedWitness ==
  /\ pc = "done"
  /\ Len(subsets) = Len(train_sizes)
  /\ Len(subsets[1].idx) >= 2
  /\ subsets[4].frac = 10
  /\ subsets[4].X.rows # X_train.rows

\* C10: normalising a normalised text changes nothing.
NormalizerIdempotent ==
  tx.pc = "clean2" => tx.out2 = tx.out

NormalizerIdempotentWitness ==
  /\ tx.pc = "clean2"
  /\ tx.out # <<>>
  /\ tx.out # tx.text
  /\ \E i \in 1..Len(tx.text) : tx.text[i] = "'"

====
